---- MODULE Spec2Model ----
(***************************************************************************)
(* Model of taskgraph/util/vcs.py: the Mercurial and Git repository       *)
(* backends, get_repository and find_hg_revision_push_info.               *)
(*                                                                         *)
(* Strings that the code splits or slices are modelled as sequences: a    *)
(* ref name such as "origin/main" is the sequence of its "/"-separated    *)
(* components <<"origin", "main">>, and a line of `git rev-list` output   *)
(* is the sequence of its characters.                                     *)
(***************************************************************************)
EXTENDS Integers, Sequences, FiniteSets, TLC

\* ------------------------------------------------------------------------
\* Bounds
\* ------------------------------------------------------------------------
MaxPushes == 2      \* push ids that may appear in one pushlog response

\* ------------------------------------------------------------------------
\* find_hg_revision_push_info
\* ------------------------------------------------------------------------
VARIABLES push_pc,      \* position inside find_hg_revision_push_info
          push_n,       \* redo.retry's attempt counter n
          push_gets,    \* outcome of every requests.get issued so far
          push_r,       \* the response object bound to r
          push_result   \* what the call returned or raised

\* remote_name (both backends) and the environment it reads
VARIABLES rn_backend,   \* "hg" or "git"
          rn_remotes,   \* names listed by `hg paths --quiet` / `git remote`
          rn_upstream,  \* outcome of `git rev-parse ... @{u}`
          rn_pc,
          rn_result

\* GitRepository.default_branch
VARIABLES db_cloned,    \* outcome of `git rev-parse --abbrev-ref <remote>/HEAD`
          db_lsremote,  \* outcome of `git ls-remote --symref <remote> HEAD`
          db_branches,  \* outcome of `git branch --all ...`
          db_pc,        \* which strategy runs next
          db_tried,     \* strategies invoked so far, in order
          db_result

\* working copy: update and working_directory_clean
VARIABLES wc_backend,   \* "hg" or "git"
          wc_rev,       \* revision the working copy is checked out at
          wc_tracked,   \* state of every tracked file
          wc_added,     \* a new file has been created and added
          wc_untracked, \* an untracked (unknown) file exists
          wc_ignored,   \* a file matching an ignore rule exists
          wc_last       \* the last operation and what it returned or raised

\* get_repository
VARIABLES loc_fs,       \* markers every directory of the path carries
          loc_start,    \* the directory get_repository is called with
          loc_which,    \* tools that shutil.which resolves
          loc_pc,
          loc_result

\* GitRepository.base_rev
VARIABLES br_output,    \* lines printed by `git rev-list ... --boundary ...`
          br_head,      \* what head_rev returns
          br_pc,
          br_result

pushVars == <<push_pc, push_n, push_gets, push_r, push_result>>

rnVars == <<rn_backend, rn_remotes, rn_upstream, rn_pc, rn_result>>

dbVars == <<db_cloned, db_lsremote, db_branches, db_pc, db_tried, db_result>>

wcVars == <<wc_backend, wc_rev, wc_tracked, wc_added, wc_untracked, wc_ignored,
            wc_last>>

locVars == <<loc_fs, loc_start, loc_which, loc_pc, loc_result>>

brVars == <<br_output, br_head, br_pc, br_result>>

vars == <<pushVars, rnVars, dbVars, wcVars, locVars, brVars>>

\* retry(..., attempts=5, ...)
attempts_one_more == 5 + 1
attempts == 5

PushIds == 1 .. MaxPushes

\* One entry of the "pushes" mapping; complete = it carries "date" and "user".
PushEntries == [date : {10}, user : {"dev"}, complete : BOOLEAN]

PushMappings == UNION {[S -> PushEntries] : S \in SUBSET PushIds}

\* A response body: either it parses as JSON with a "pushes" key, or not.
Bodies == {[json |-> FALSE, pushes |-> << >>]}
            \cup {[json |-> TRUE, pushes |-> m] : m \in PushMappings}

NoResponse == [status |-> 0, body |-> [json |-> FALSE, pushes |-> << >>]]

\* What one requests.get(pushlog_url, timeout=60) can produce: a network
\* failure (no response), or a response with a status code and a body.
GetOutcomes == {[net |-> FALSE, resp |-> NoResponse],
                [net |-> TRUE, resp |-> [status |-> 500, body |-> NoResponse.body]]}
                 \cup {[net |-> TRUE, resp |-> [status |-> 200, body |-> b]] :
                         b \in Bodies}

\* r.raise_for_status(): raises HTTPError for a 4xx/5xx status.
raise_for_status(resp) == resp.status >= 400

\* query_pushlog(url): the exception it raises, or "ok".
query_pushlog(o) ==
    IF ~o.net THEN "ConnectionError"
    ELSE IF raise_for_status(o.resp) THEN "HTTPError"
    ELSE "ok"

NoResult == [kind |-> "none", pushid |-> 0, pushdate |-> 0, user |-> ""]

Raised(exc) == [kind |-> exc, pushid |-> 0, pushdate |-> 0, user |-> ""]

\* list(pushes.keys())[0]
FirstKey(pushes) == CHOOSE p \in DOMAIN pushes : \A q \in DOMAIN pushes : p <= q

\* Lines 306-318 with the single-entry test weakened to "not empty".
ParsePushes_nonempty(body) ==
    IF ~body.json THEN Raised("ValueError")
    ELSE IF Cardinality(DOMAIN body.pushes) = 0 THEN Raised("RuntimeError")
    ELSE LET pushid == FirstKey(body.pushes) IN
         IF ~body.pushes[pushid].complete THEN Raised("KeyError")
         ELSE [kind |-> "PushInfo", pushid |-> pushid,
               pushdate |-> body.pushes[pushid].date,
               user |-> body.pushes[pushid].user]

\* Lines 306-318: pushes = r.json()["pushes"]; the len(pushes) != 1 test;
\* extraction of pushid, pushdate and user.
ParsePushes(body) ==
    IF ~body.json THEN Raised("ValueError")
    ELSE IF Cardinality(DOMAIN body.pushes) # 1 THEN Raised("RuntimeError")
    ELSE LET pushid == FirstKey(body.pushes) IN
         IF ~body.pushes[pushid].complete THEN Raised("KeyError")
         ELSE [kind |-> "PushInfo", pushid |-> pushid,
               pushdate |-> body.pushes[pushid].date,
               user |-> body.pushes[pushid].user]

PushIdle ==
    /\ push_pc = "off"
    /\ push_n = 1
    /\ push_gets = << >>
    /\ push_r = NoResponse
    /\ push_result = NoResult

PushInit ==
    /\ push_pc = "retry"
    /\ push_n = 1
    /\ push_gets = << >>
    /\ push_r = NoResponse
    /\ push_result = NoResult

\* One iteration of redo.retry's loop around query_pushlog: the loop runs for
\* at most `attempts` iterations; a raised exception is re-raised when
\* n == attempts, otherwise n is incremented and the loop goes on.
retry ==
    /\ push_pc = "retry"
    /\ push_n <= attempts
    /\ \E o \in GetOutcomes :
         /\ push_gets' = Append(push_gets, o)
         /\ IF query_pushlog(o) = "ok"
            THEN /\ push_r' = o.resp
                 /\ push_pc' = "parse"
                 /\ push_result' = push_result
            ELSE IF push_n = attempts
            THEN /\ push_r' = push_r
                 /\ push_pc' = "raised"
                 /\ push_result' = Raised(query_pushlog(o))
            ELSE /\ push_r' = push_r
                 /\ push_pc' = push_pc
                 /\ push_result' = push_result
    /\ push_n' = push_n + 1
    /\ UNCHANGED <<rnVars, dbVars, wcVars, locVars, brVars>>

\* The code after retry() has returned r.
find_hg_revision_push_info ==
    /\ push_pc = "parse"
    /\ push_result' = ParsePushes(push_r.body)
    /\ push_pc' = IF push_result'.kind = "PushInfo" THEN "returned" ELSE "raised"
    /\ UNCHANGED <<push_n, push_gets, push_r>>
    /\ UNCHANGED <<rnVars, dbVars, wcVars, locVars, brVars>>

NextPush == retry \/ find_hg_revision_push_info

\* ------------------------------------------------------------------------
\* remote_name
\* ------------------------------------------------------------------------
MaxRemotes == 3     \* remotes / paths configured at once

\* Names are sequences of "/"-separated components.
RemotePool == {<<"origin">>, <<"default">>, <<"upstream">>, <<"my", "fork">>}

RemoteSets == {S \in SUBSET RemotePool : Cardinality(S) <= MaxRemotes}

\* `git rev-parse --verify --abbrev-ref --symbolic-full-name @{u}`: exit code
\* 128 (no upstream configured, detached HEAD), another non-zero exit code, or
\* the short name of the upstream: a branch of a configured remote, or a local
\* branch (branch.<name>.remote = .).
Upstreams(remotes) ==
    {[rc |-> 128, out |-> << >>], [rc |-> 1, out |-> << >>],
     [rc |-> 0, out |-> <<"main">>]}
      \cup {[rc |-> 0, out |-> r \o <<"main">>] : r \in remotes}

RnNone == [kind |-> "none", name |-> << >>, candidates |-> {}, rc |-> 0, msg |-> ""]

RnOk(name) == [kind |-> "ok", name |-> name, candidates |-> {}, rc |-> 0, msg |-> ""]

CalledProcessError(rc) ==
    [kind |-> "CalledProcessError", name |-> << >>, candidates |-> {}, rc |-> rc,
     msg |-> ""]

RuntimeError(msg, candidates) ==
    [kind |-> "RuntimeError", name |-> << >>, candidates |-> candidates, rc |-> 0,
     msg |-> msg]

OtherError(exc) ==
    [kind |-> exc, name |-> << >>, candidates |-> {}, rc |-> 0, msg |-> ""]

\* remotes[0] of a one-element listing
Only(remotes) == CHOOSE r \in remotes : TRUE

\* HgRepository.remote_name
HgRemoteName(remotes) ==
    IF Cardinality(remotes) = 1 THEN RnOk(Only(remotes))
    ELSE IF <<"default">> \in remotes THEN RnOk(<<"default">>)
    ELSE RuntimeError("Cannot determine remote repository name", remotes)

\* GitRepository.remote_name without the preference for "origin".
GitRemoteName_no_origin(upstream, remotes) ==
    IF upstream.rc = 0 THEN RnOk(<<Head(upstream.out)>>)
    ELSE IF upstream.rc # 128 THEN CalledProcessError(upstream.rc)
    ELSE IF Cardinality(remotes) = 1 THEN RnOk(Only(remotes))
    ELSE RuntimeError("Cannot determine remote repository name", remotes)

\* GitRepository.remote_name: remote_branch_name.split("/")[0] when the
\* upstream query succeeds; re-raise unless the exit code is 128; then the
\* single-remote / "origin" fallback.
GitRemoteName(upstream, remotes) ==
    IF upstream.rc = 0 THEN RnOk(<<Head(upstream.out)>>)
    ELSE IF upstream.rc # 128 THEN CalledProcessError(upstream.rc)
    ELSE IF Cardinality(remotes) = 1 THEN RnOk(Only(remotes))
    ELSE IF <<"origin">> \in remotes THEN RnOk(<<"origin">>)
    ELSE RuntimeError("Cannot determine remote repository name", remotes)

RnIdle ==
    /\ rn_backend = "git"
    /\ rn_remotes = {}
    /\ rn_upstream = [rc |-> 128, out |-> << >>]
    /\ rn_pc = "off"
    /\ rn_result = RnNone

RnInit ==
    /\ rn_backend \in {"hg", "git"}
    /\ rn_remotes \in RemoteSets
    /\ rn_upstream \in IF rn_backend = "git" THEN Upstreams(rn_remotes)
                       ELSE {[rc |-> 128, out |-> << >>]}
    /\ rn_pc = "call"
    /\ rn_result = RnNone

HgRepository_remote_name ==
    /\ rn_pc = "call"
    /\ rn_backend = "hg"
    /\ rn_result' = HgRemoteName(rn_remotes)
    /\ rn_pc' = "done"
    /\ UNCHANGED <<rn_backend, rn_remotes, rn_upstream>>
    /\ UNCHANGED <<pushVars, dbVars, wcVars, locVars, brVars>>

GitRepository_remote_name ==
    /\ rn_pc = "call"
    /\ rn_backend = "git"
    /\ rn_result' = GitRemoteName(rn_upstream, rn_remotes)
    /\ rn_pc' = "done"
    /\ UNCHANGED <<rn_backend, rn_remotes, rn_upstream>>
    /\ UNCHANGED <<pushVars, dbVars, wcVars, locVars, brVars>>

NextRemote == HgRepository_remote_name \/ GitRepository_remote_name

\* ------------------------------------------------------------------------
\* GitRepository.default_branch
\* ------------------------------------------------------------------------
MaxBranches == 2    \* lines printed by `git branch --all`

BranchPool == {<<"main">>, <<"master">>, <<"dev">>, <<"origin", "main">>}

RECURSIVE Listings(_)
\* Listings of at most n distinct refs, in any order.
Listings(n) ==
    IF n = 0 THEN {<< >>}
    ELSE Listings(n - 1)
           \cup {Append(l, b) : l \in {k \in Listings(n - 1) : Len(k) = n - 1},
                                b \in BranchPool}

Distinct(l) == \A i, j \in 1 .. Len(l) : i # j => l[i] # l[j]

\* A git invocation: the exception self.run raises ("none" when it exits 0)
\* and the text it prints.
RunFailures == {[exc |-> e, out |-> << >>, symref |-> FALSE] :
                  e \in {"CalledProcessError", "OSError"}}

\* `git rev-parse --abbrev-ref <remote>/HEAD` of a clone prints <remote>/<branch>.
ClonedOutcomes ==
    RunFailures \cup {[exc |-> "none", out |-> <<"origin", "trunk">>, symref |-> FALSE]}

\* `git ls-remote --symref <remote> HEAD`: with or without a line
\* "ref: refs/heads/<branch_name> HEAD" for _LS_REMOTE_PATTERN to find.
LsRemoteOutcomes ==
    RunFailures \cup {[exc |-> "none", out |-> << >>, symref |-> FALSE],
                      [exc |-> "none", out |-> <<"develop">>, symref |-> TRUE]}

BranchOutcomes ==
    RunFailures \cup {[exc |-> "none", out |-> l, symref |-> FALSE] :
                        l \in {k \in Listings(MaxBranches) : Distinct(k)}}

\* except (subprocess.CalledProcessError, RuntimeError) widened to every exception.
Caught_everything(exc) == TRUE
\* except (subprocess.CalledProcessError, RuntimeError): pass
Caught(exc) == exc \in {"CalledProcessError", "RuntimeError"}

\* _get_default_branch_from_cloned_metadata: self.remote_name is evaluated
\* first, then the command runs, then "/".join(output.split("/")[1:]).
get_default_branch_from_cloned_metadata(upstream, remotes, cloned) ==
    LET rn == GitRemoteName(upstream, remotes) IN
    IF rn.kind # "ok" THEN rn
    ELSE IF cloned.exc = "CalledProcessError" THEN CalledProcessError(128)
    ELSE IF cloned.exc # "none" THEN OtherError(cloned.exc)
    ELSE RnOk(Tail(cloned.out))

\* _get_default_branch_from_remote_query
get_default_branch_from_remote_query(upstream, remotes, ls) ==
    LET rn == GitRemoteName(upstream, remotes) IN
    IF rn.kind # "ok" THEN rn
    ELSE IF ls.exc = "CalledProcessError" THEN CalledProcessError(128)
    ELSE IF ls.exc # "none" THEN OtherError(ls.exc)
    ELSE IF ~ls.symref
         THEN RuntimeError("Could not find the default branch of remote repository", {})
    ELSE RnOk(ls.out)

RECURSIVE CandidateBranches(_)
\* The list comprehension of _guess_default_branch: for every line, in order,
\* every candidate of ("main", "master") equal to the line.
CandidateBranches(lines) ==
    IF lines = << >> THEN << >>
    ELSE SelectSeq(<< <<"main">>, <<"master">> >>, LAMBDA c : c = Head(lines))
           \o CandidateBranches(Tail(lines))

\* _guess_default_branch
guess_default_branch(listing) ==
    IF listing.exc = "CalledProcessError" THEN CalledProcessError(128)
    ELSE IF listing.exc # "none" THEN OtherError(listing.exc)
    ELSE LET branches == CandidateBranches(listing.out) IN
         IF branches # << >> THEN RnOk(branches[1])
         ELSE RuntimeError("Unable to find default branch", {})

DbIdle ==
    /\ db_cloned = [exc |-> "OSError", out |-> << >>, symref |-> FALSE]
    /\ db_lsremote = [exc |-> "OSError", out |-> << >>, symref |-> FALSE]
    /\ db_branches = [exc |-> "OSError", out |-> << >>, symref |-> FALSE]
    /\ db_pc = "off"
    /\ db_tried = << >>
    /\ db_result = RnNone

DbInit ==
    /\ db_cloned \in ClonedOutcomes
    /\ db_lsremote \in LsRemoteOutcomes
    /\ db_branches \in BranchOutcomes
    /\ db_pc = "cloned_metadata"
    /\ db_tried = << >>
    /\ db_result = RnNone

\* default_branch, first try block
default_branch_cloned_metadata ==
    /\ db_pc = "cloned_metadata"
    /\ db_tried' = Append(db_tried, "cloned_metadata")
    /\ LET r == get_default_branch_from_cloned_metadata(rn_upstream, rn_remotes,
                                                        db_cloned) IN
       IF r.kind = "ok" THEN db_result' = r /\ db_pc' = "done"
       ELSE IF Caught(r.kind) THEN db_result' = db_result /\ db_pc' = "remote_query"
       ELSE db_result' = r /\ db_pc' = "done"
    /\ UNCHANGED <<db_cloned, db_lsremote, db_branches>>
    /\ UNCHANGED <<pushVars, rnVars, wcVars, locVars, brVars>>

\* default_branch, second try block
default_branch_remote_query ==
    /\ db_pc = "remote_query"
    /\ db_tried' = Append(db_tried, "remote_query")
    /\ LET r == get_default_branch_from_remote_query(rn_upstream, rn_remotes,
                                                     db_lsremote) IN
       IF r.kind = "ok" THEN db_result' = r /\ db_pc' = "done"
       ELSE IF Caught(r.kind) THEN db_result' = db_result /\ db_pc' = "guess"
       ELSE db_result' = r /\ db_pc' = "done"
    /\ UNCHANGED <<db_cloned, db_lsremote, db_branches>>
    /\ UNCHANGED <<pushVars, rnVars, wcVars, locVars, brVars>>

\* default_branch, last resort: return self._guess_default_branch()
default_branch_guess ==
    /\ db_pc = "guess"
    /\ db_tried' = Append(db_tried, "guess")
    /\ db_result' = guess_default_branch(db_branches)
    /\ db_pc' = "done"
    /\ UNCHANGED <<db_cloned, db_lsremote, db_branches>>
    /\ UNCHANGED <<pushVars, rnVars, wcVars, locVars, brVars>>

NextDefault ==
    \/ default_branch_cloned_metadata
    \/ default_branch_remote_query
    \/ default_branch_guess

\* ------------------------------------------------------------------------
\* Working copy: update and working_directory_clean
\* ------------------------------------------------------------------------
\* Two tracked files; the repository has two revisions, which agree on "f"
\* and differ on "g".
Files == {"f", "g"}

Revs == 1 .. 2

SameInBoth(file) == file = "f"

FileStates == {"clean", "modified", "removed", "deleted"}

Snapshot(rev, tracked, added) == [rev |-> rev, tracked |-> tracked, added |-> added]

NoSnapshot == Snapshot(0, [f \in Files |-> "clean"], FALSE)

WcOp(op, ref, ok, before, untracked, ignored, result) ==
    [op |-> op, ref |-> ref, ok |-> ok, before |-> before,
     untracked |-> untracked, ignored |-> ignored, result |-> result]

Edited == WcOp("edit", 0, TRUE, NoSnapshot, FALSE, FALSE, FALSE)

\* The entries a status query can list, by class.
StatusEntries ==
    {[file |-> f, class |-> wc_tracked[f]] : f \in {x \in Files : wc_tracked[x] # "clean"}}
      \cup (IF wc_added THEN {[file |-> "new", class |-> "added"]} ELSE {})
      \cup (IF wc_untracked THEN {[file |-> "scratch", class |-> "unknown"]} ELSE {})
      \cup (IF wc_ignored THEN {[file |-> "build.log", class |-> "ignored"]} ELSE {})

TrackedClasses == {"modified", "added", "removed", "deleted"}

\* HgRepository.working_directory_clean, the argument vector
HgStatusArgs(untracked, ignored) ==
    {"--modified", "--added", "--removed", "--deleted"}
      \cup (IF untracked THEN {"--unknown"} ELSE {})
      \cup (IF ignored THEN {"--ignored"} ELSE {})

\* `hg status <flags>` lists the entries of exactly the classes asked for.
HgStatusFlag(class) ==
    CASE class = "modified" -> "--modified"
      [] class = "added" -> "--added"
      [] class = "removed" -> "--removed"
      [] class = "deleted" -> "--deleted"
      [] class = "unknown" -> "--unknown"
      [] class = "ignored" -> "--ignored"

HgStatus(args) == {e \in StatusEntries : HgStatusFlag(e.class) \in args}

\* GitRepository.working_directory_clean, the argument vector
GitStatusArgs(untracked, ignored) ==
    {"--porcelain"}
      \cup (IF untracked THEN {"--untracked-files=all"} ELSE {"--untracked-files=no"})
      \cup (IF ignored THEN {"--ignored"} ELSE {})

\* `git status --porcelain`: changes to tracked files always; untracked files
\* under --untracked-files=all; ignored files under --ignored, but only when
\* untracked files are collected at all (--untracked-files=no turns the whole
\* scan for untracked and ignored files off).
GitStatus(args) ==
    {e \in StatusEntries :
        \/ e.class \in TrackedClasses
        \/ e.class = "unknown" /\ "--untracked-files=all" \in args
        \/ e.class = "ignored" /\ "--ignored" \in args
                               /\ "--untracked-files=no" \notin args}

HasLocalChanges(tracked, added) == added \/ \E f \in Files : tracked[f] # "clean"

\* `hg update --check <ref>`: aborts ("uncommitted changes") when a tracked
\* file is modified, added, removed or missing; otherwise moves to ref.
HgUpdate(rev, tracked, added, ref) ==
    IF HasLocalChanges(tracked, added)
    THEN [ok |-> FALSE, rev |-> rev, tracked |-> tracked]
    ELSE [ok |-> TRUE, rev |-> ref, tracked |-> tracked]

\* `git checkout -f <ref>`: the forced checkout.
GitCheckout_force(rev, tracked, added, ref) ==
    [ok |-> TRUE, rev |-> ref, tracked |-> [f \in Files |-> "clean"]]

\* `git checkout <ref>`: refuses ("Your local changes ... would be overwritten
\* by checkout") when a file with a content change or a staged removal
\* differs between the current revision and ref; otherwise switches and
\* carries the local changes over, recreating a missing file that differs.
GitCheckout(rev, tracked, added, ref) ==
    IF ref # rev /\ \E f \in Files : ~SameInBoth(f) /\ tracked[f] \in {"modified", "removed"}
    THEN [ok |-> FALSE, rev |-> rev, tracked |-> tracked]
    ELSE [ok |-> TRUE, rev |-> ref,
          tracked |-> [f \in Files |->
                         IF ref # rev /\ ~SameInBoth(f) /\ tracked[f] = "deleted"
                         THEN "clean" ELSE tracked[f]]]

WcIdle ==
    /\ wc_backend = "git"
    /\ wc_rev = 2
    /\ wc_tracked = [f \in Files |-> "clean"]
    /\ wc_added = FALSE
    /\ wc_untracked = FALSE
    /\ wc_ignored = FALSE
    /\ wc_last = WcOp("off", 0, TRUE, NoSnapshot, FALSE, FALSE, FALSE)

\* A fresh, unmodified checkout of the tip revision.
WcInit ==
    /\ wc_backend \in {"hg", "git"}
    /\ wc_rev = 2
    /\ wc_tracked = [f \in Files |-> "clean"]
    /\ wc_added = FALSE
    /\ wc_untracked = FALSE
    /\ wc_ignored = FALSE
    /\ wc_last = WcOp("none", 0, TRUE, NoSnapshot, FALSE, FALSE, FALSE)

\* The user edits, removes (hg rm / git rm) or deletes (rm) a tracked file.
ChangeTrackedFile ==
    /\ \E f \in Files, c \in {"modified", "removed", "deleted"} :
         /\ wc_tracked[f] = "clean"
         /\ wc_tracked' = [wc_tracked EXCEPT ![f] = c]
    /\ wc_last' = Edited
    /\ UNCHANGED <<wc_backend, wc_rev, wc_added, wc_untracked, wc_ignored>>
    /\ UNCHANGED <<pushVars, rnVars, dbVars, locVars, brVars>>

\* The user creates a file and adds it (hg add / git add).
AddFile ==
    /\ ~wc_added
    /\ wc_added' = TRUE
    /\ wc_last' = Edited
    /\ UNCHANGED <<wc_backend, wc_rev, wc_tracked, wc_untracked, wc_ignored>>
    /\ UNCHANGED <<pushVars, rnVars, dbVars, locVars, brVars>>

\* The user creates a file and does not add it.
CreateUntrackedFile ==
    /\ ~wc_untracked
    /\ wc_untracked' = TRUE
    /\ wc_last' = Edited
    /\ UNCHANGED <<wc_backend, wc_rev, wc_tracked, wc_added, wc_ignored>>
    /\ UNCHANGED <<pushVars, rnVars, dbVars, locVars, brVars>>

\* A file matching an ignore rule appears (a build product).
CreateIgnoredFile ==
    /\ ~wc_ignored
    /\ wc_ignored' = TRUE
    /\ wc_last' = Edited
    /\ UNCHANGED <<wc_backend, wc_rev, wc_tracked, wc_added, wc_untracked>>
    /\ UNCHANGED <<pushVars, rnVars, dbVars, locVars, brVars>>

\* HgRepository.working_directory_clean
HgRepository_working_directory_clean ==
    /\ wc_backend = "hg"
    /\ \E untracked \in BOOLEAN, ignored \in BOOLEAN :
         wc_last' = WcOp("clean", 0, TRUE, NoSnapshot, untracked, ignored,
                         HgStatus(HgStatusArgs(untracked, ignored)) = {})
    /\ UNCHANGED <<wc_backend, wc_rev, wc_tracked, wc_added, wc_untracked, wc_ignored>>
    /\ UNCHANGED <<pushVars, rnVars, dbVars, locVars, brVars>>

\* GitRepository.working_directory_clean
GitRepository_working_directory_clean ==
    /\ wc_backend = "git"
    /\ \E untracked \in BOOLEAN, ignored \in BOOLEAN :
         wc_last' = WcOp("clean", 0, TRUE, NoSnapshot, untracked, ignored,
                         GitStatus(GitStatusArgs(untracked, ignored)) = {})
    /\ UNCHANGED <<wc_backend, wc_rev, wc_tracked, wc_added, wc_untracked, wc_ignored>>
    /\ UNCHANGED <<pushVars, rnVars, dbVars, locVars, brVars>>

\* HgRepository.update: self.run("update", "--check", ref); a non-zero exit
\* raises CalledProcessError.
HgRepository_update ==
    /\ wc_backend = "hg"
    /\ \E ref \in Revs :
         LET u == HgUpdate(wc_rev, wc_tracked, wc_added, ref) IN
         /\ wc_rev' = u.rev
         /\ wc_tracked' = u.tracked
         /\ wc_last' = WcOp("update", ref, u.ok, Snapshot(wc_rev, wc_tracked, wc_added),
                            FALSE, FALSE, FALSE)
    /\ UNCHANGED <<wc_backend, wc_added, wc_untracked, wc_ignored>>
    /\ UNCHANGED <<pushVars, rnVars, dbVars, locVars, brVars>>

\* GitRepository.update: self.run("checkout", ref); a non-zero exit raises
\* CalledProcessError.
GitRepository_update ==
    /\ wc_backend = "git"
    /\ \E ref \in Revs :
         LET u == GitCheckout(wc_rev, wc_tracked, wc_added, ref) IN
         /\ wc_rev' = u.rev
         /\ wc_tracked' = u.tracked
         /\ wc_last' = WcOp("update", ref, u.ok, Snapshot(wc_rev, wc_tracked, wc_added),
                            FALSE, FALSE, FALSE)
    /\ UNCHANGED <<wc_backend, wc_added, wc_untracked, wc_ignored>>
    /\ UNCHANGED <<pushVars, rnVars, dbVars, locVars, brVars>>

NextWork ==
    \/ ChangeTrackedFile
    \/ AddFile
    \/ CreateUntrackedFile
    \/ CreateIgnoredFile
    \/ HgRepository_working_directory_clean
    \/ GitRepository_working_directory_clean
    \/ HgRepository_update
    \/ GitRepository_update

\* ------------------------------------------------------------------------
\* get_repository
\* ------------------------------------------------------------------------
MaxDepth == 3       \* directories on the path from the root to the deepest one

\* Directory d is the d-th directory on the path, the root being 1.
Dirs == 1 .. MaxDepth

\* What a directory holds under the name ".hg" / ".git".
Markers == {"none", "file", "dir"}

\* taskgraph.util.path.ancestors: the path itself, then every parent up to
\* the root, closest first.
ancestors(path) == [i \in 1 .. path |-> path - i + 1]

LocNone == [kind |-> "none", path |-> 0]

\* os.path.exists(os.path.join(path, ".hg")) in place of os.path.isdir.
HasHgMarker_exists(path) == loc_fs[path].hg # "none"

\* os.path.isdir(os.path.join(path, ".hg"))
HasHgMarker(path) == loc_fs[path].hg = "dir"

\* os.path.exists(os.path.join(path, ".git"))
HasGitMarker(path) == loc_fs[path].git # "none"

\* Repository.__init__: self.binary = which(self.tool); OSError when None.
Repository(class, tool, path) ==
    IF tool \in loc_which THEN [kind |-> class, path |-> path]
    ELSE [kind |-> "OSError", path |-> 0]

RECURSIVE FirstRepository(_)
\* The loop of get_repository over ancestors(path).
FirstRepository(paths) ==
    IF paths = << >>
    THEN [kind |-> "RuntimeError", path |-> 0]
    ELSE IF HasHgMarker(Head(paths)) THEN Repository("HgRepository", "hg", Head(paths))
    ELSE IF HasGitMarker(Head(paths)) THEN Repository("GitRepository", "git", Head(paths))
    ELSE FirstRepository(Tail(paths))

LocIdle ==
    /\ loc_fs = [d \in Dirs |-> [hg |-> "none", git |-> "none"]]
    /\ loc_start = 1
    /\ loc_which = {}
    /\ loc_pc = "off"
    /\ loc_result = LocNone

LocInit ==
    /\ loc_fs \in [Dirs -> [hg : Markers, git : Markers]]
    /\ loc_start \in Dirs
    /\ loc_which \in SUBSET {"hg", "git"}
    /\ loc_pc = "call"
    /\ loc_result = LocNone

get_repository ==
    /\ loc_pc = "call"
    /\ loc_result' = FirstRepository(ancestors(loc_start))
    /\ loc_pc' = "done"
    /\ UNCHANGED <<loc_fs, loc_start, loc_which>>
    /\ UNCHANGED <<pushVars, rnVars, dbVars, wcVars, brVars>>

NextLocate == get_repository

\* ------------------------------------------------------------------------
\* GitRepository.base_rev
\* ------------------------------------------------------------------------
MaxRevs == 3        \* lines printed by `git rev-list`

\* Revision identifiers, as sequences of characters.
RevIds == {<<"a", "1">>, <<"b", "2">>, <<"c", "3">>, <<"d", "4">>}

RECURSIVE RevLists(_)
\* Sequences of at most n revision identifiers.
RevLists(n) ==
    IF n = 0 THEN {<< >>}
    ELSE RevLists(n - 1)
           \cup {Append(l, r) : l \in {k \in RevLists(n - 1) : Len(k) = n - 1},
                                r \in RevIds}

\* A line of the output: a commit, or a boundary commit with its "-" prefix.
Line(id, boundary) == IF boundary THEN <<"-">> \o id ELSE id

\* `git rev-list HEAD --topo-order --boundary --not --remotes`: the commits
\* reachable from HEAD and from no remote-tracking ref, HEAD first, followed
\* by the boundary commits.
RevListOutputs ==
    {[i \in 1 .. Len(l) |-> Line(l[i], i > k)] :
        l \in {x \in RevLists(MaxRevs) : \A i, j \in 1 .. Len(x) : i # j => x[i] # x[j]},
        k \in 0 .. MaxRevs}

IsBoundary(line) == Head(line) = "-"

\* GitRepository.base_rev: refs[-1][1:] when refs is not empty, else head_rev.
base_rev(refs, head) ==
    IF refs # << >> THEN Tail(refs[Len(refs)]) ELSE head

BrIdle ==
    /\ br_output = << >>
    /\ br_head = <<"a", "1">>
    /\ br_pc = "off"
    /\ br_result = << >>

BrInit ==
    /\ br_output \in RevListOutputs
    /\ br_head \in RevIds
    /\ (br_output # << >> /\ ~IsBoundary(br_output[1])) => br_head = br_output[1]
    /\ br_pc = "call"
    /\ br_result = << >>

GitRepository_base_rev ==
    /\ br_pc = "call"
    /\ br_result' = base_rev(br_output, br_head)
    /\ br_pc' = "done"
    /\ UNCHANGED <<br_output, br_head>>
    /\ UNCHANGED <<pushVars, rnVars, dbVars, wcVars, locVars>>

NextBase == GitRepository_base_rev

\* ------------------------------------------------------------------------
\* Specifications, one per unit
\* ------------------------------------------------------------------------
InitPush == PushInit /\ RnIdle /\ DbIdle /\ WcIdle /\ LocIdle /\ BrIdle

SpecPush == InitPush /\ [][NextPush]_vars

InitRemote == PushIdle /\ RnInit /\ DbIdle /\ WcIdle /\ LocIdle /\ BrIdle

SpecRemote == InitRemote /\ [][NextRemote]_vars

InitDefault ==
    /\ PushIdle /\ WcIdle /\ LocIdle /\ BrIdle
    /\ rn_backend = "git"
    /\ rn_remotes \in RemoteSets
    /\ rn_upstream \in Upstreams(rn_remotes)
    /\ rn_pc = "off"
    /\ rn_result = RnNone
    /\ DbInit

SpecDefault == InitDefault /\ [][NextDefault]_vars

InitWork == PushIdle /\ RnIdle /\ DbIdle /\ WcInit /\ LocIdle /\ BrIdle

SpecWork == InitWork /\ [][NextWork]_vars

InitLocate == PushIdle /\ RnIdle /\ DbIdle /\ WcIdle /\ LocInit /\ BrIdle

SpecLocate == InitLocate /\ [][NextLocate]_vars

InitBase == PushIdle /\ RnIdle /\ DbIdle /\ WcIdle /\ LocIdle /\ BrInit

SpecBase == InitBase /\ [][NextBase]_vars

\* ------------------------------------------------------------------------
\* Properties
\* ------------------------------------------------------------------------
Failed(o) == ~o.net \/ o.resp.status >= 400

RetriesExhausted ==
    push_pc = "raised" /\ push_result.kind \in {"ConnectionError", "HTTPError"}

AfterSuccess ==
    push_pc \in {"parse", "returned"} \/ (push_pc = "raised" /\ ~RetriesExhausted)

\* C1: one call issues at most 5 GETs; every attempt before the last one
\* failed, so nothing is attempted after a success; while the loop is still
\* running fewer than 5 attempts have been made and all of them failed; after
\* a success the call works on the response of that attempt; and the failure
\* raised out of the loop is that of the 5th attempt.
C1_BoundedRetry ==
    /\ Len(push_gets) <= 5
    /\ \A i \in 1 .. Len(push_gets) - 1 : Failed(push_gets[i])
    /\ push_pc = "retry" =>
         /\ Len(push_gets) < 5
         /\ \A i \in 1 .. Len(push_gets) : Failed(push_gets[i])
    /\ AfterSuccess =>
         /\ ~Failed(push_gets[Len(push_gets)])
         /\ push_r = push_gets[Len(push_gets)].resp
    /\ RetriesExhausted =>
         /\ Len(push_gets) = 5
         /\ Failed(push_gets[5])
         /\ push_result.kind = (IF push_gets[5].net THEN "HTTPError" ELSE "ConnectionError")

\* C1 witness: three failed attempts, then the 4th succeeds and the call
\* returns a value built from it.
C1_FourthAttemptSucceeds ==
    /\ push_pc = "returned"
    /\ Len(push_gets) = 4
    /\ push_result.pushid \in DOMAIN push_gets[4].resp.body.pushes

\* C2: once an attempt has succeeded the call returns only for a "pushes"
\* mapping with exactly one entry, whose key is the pushid returned; a mapping
\* with zero or several entries raises the RuntimeError of line 308, and after
\* that error no further attempt can be made.
C2_SinglePushOnly ==
    /\ push_pc = "returned" =>
         /\ push_result.kind = "PushInfo"
         /\ push_r.body.json
         /\ DOMAIN push_r.body.pushes = {push_result.pushid}
    /\ ( /\ push_pc \in {"returned", "raised"}
         /\ ~RetriesExhausted
         /\ push_r.body.json
         /\ Cardinality(DOMAIN push_r.body.pushes) # 1 ) =>
         /\ push_pc = "raised"
         /\ push_result = Raised("RuntimeError")
    /\ push_result.kind = "RuntimeError" =>
         /\ ~ENABLED retry
         /\ ~Failed(push_gets[Len(push_gets)])

\* C2 witness: a response with two pushes has been refused.
C2_TwoPushesRefused ==
    /\ push_pc = "raised"
    /\ push_result.kind = "RuntimeError"
    /\ Cardinality(DOMAIN push_r.body.pushes) = 2

\* C3: on a repository with exactly one configured remote remote_name
\* returns that remote's name, for both backends and whatever the upstream
\* configuration of the current branch (a failure of the upstream query with
\* an exit code other than 128, which the code re-raises, is left aside).
C3_SingleRemoteName ==
    ( /\ rn_pc = "done"
      /\ Cardinality(rn_remotes) = 1
      /\ rn_upstream.rc \in {0, 128} ) =>
        \E r \in rn_remotes : rn_result = RnOk(r)

PreferredRemote == IF rn_backend = "hg" THEN <<"default">> ELSE <<"origin">>

PreferredOrAmbiguous ==
    IF PreferredRemote \in rn_remotes
    THEN rn_result = RnOk(PreferredRemote)
    ELSE rn_result.kind = "RuntimeError" /\ rn_result.candidates = rn_remotes

\* The current branch tracks branch "main" of a configured remote whose name
\* holds no "/".
TracksConfiguredRemote ==
    /\ rn_upstream.rc = 0
    /\ \E r \in rn_remotes : Len(r) = 1 /\ rn_upstream.out = r \o <<"main">>

\* C4 as stated: with zero or several remotes the Git backend returns
\* "origin" whenever it is configured, the Mercurial backend "default"
\* whenever it is configured, and otherwise the call raises the ambiguity
\* error listing the candidates. Stated for a current branch that has no
\* upstream or tracks a branch of a configured remote.
C4_PreferredRemote ==
    ( /\ rn_pc = "done"
      /\ Cardinality(rn_remotes) # 1
      /\ rn_backend = "git" => (rn_upstream.rc = 128 \/ TracksConfiguredRemote) ) =>
        PreferredOrAmbiguous

\* C4 amended: the same, on the Git backend only when the current branch has
\* no upstream configured (the upstream query exits with code 128).
C4_PreferredRemoteWithoutUpstream ==
    ( /\ rn_pc = "done"
      /\ Cardinality(rn_remotes) # 1
      /\ rn_backend = "git" => rn_upstream.rc = 128 ) => PreferredOrAmbiguous

\* C4 witness: remotes "origin" and "upstream", no upstream configured.
C4_OriginAmongTwo ==
    /\ rn_pc = "done"
    /\ rn_backend = "git"
    /\ rn_remotes = {<<"origin">>, <<"upstream">>}
    /\ rn_upstream.rc = 128
    /\ rn_result = RnOk(<<"origin">>)

StrategyA == get_default_branch_from_cloned_metadata(rn_upstream, rn_remotes, db_cloned)

StrategyB == get_default_branch_from_remote_query(rn_upstream, rn_remotes, db_lsremote)

StrategyC == guess_default_branch(db_branches)

Expected(r) == r.kind \in {"CalledProcessError", "RuntimeError"}

ListedBranches == {db_branches.out[i] : i \in 1 .. Len(db_branches.out)}

NotFound == RuntimeError("Unable to find default branch", {})

GuessRan == db_pc = "done" /\ db_tried = <<"cloned_metadata", "remote_query", "guess">>

\* C5 as stated: default_branch raises the default-branch-not-found error
\* exactly when all three strategies have been tried and each has failed with
\* a tool invocation error or a descriptive runtime failure.
C5_NotFoundIffAllFail ==
    db_pc = "done" => ((GuessRan /\ Expected(StrategyC)) <=> db_result = NotFound)

\* C5 amended: the strategies run in the order cloned metadata, remote query,
\* branch scan; a strategy runs only after every earlier one failed with a
\* CalledProcessError or a RuntimeError; the result is that of the first
\* strategy that succeeds, any other failure of the first two propagates
\* unchanged; and the not-found error is raised exactly when the first two
\* failed that way and the scan lists neither "main" nor "master" (a failure
\* of the scan's own git command propagates as it is).
C5_OrderedFallback ==
    /\ db_pc = "remote_query" => db_tried = <<"cloned_metadata">> /\ Expected(StrategyA)
    /\ db_pc = "guess" =>
         /\ db_tried = <<"cloned_metadata", "remote_query">>
         /\ Expected(StrategyA) /\ Expected(StrategyB)
    /\ db_pc = "done" =>
         /\ \/ /\ db_tried = <<"cloned_metadata">>
               /\ ~Expected(StrategyA)
               /\ db_result = StrategyA
            \/ /\ db_tried = <<"cloned_metadata", "remote_query">>
               /\ Expected(StrategyA) /\ ~Expected(StrategyB)
               /\ db_result = StrategyB
            \/ /\ db_tried = <<"cloned_metadata", "remote_query", "guess">>
               /\ Expected(StrategyA) /\ Expected(StrategyB)
               /\ db_result = StrategyC
         /\ db_result = NotFound <=>
              /\ Expected(StrategyA) /\ Expected(StrategyB)
              /\ db_branches.exc = "none"
              /\ <<"main">> \notin ListedBranches
              /\ <<"master">> \notin ListedBranches

\* C5 witness: all three strategies were tried and the not-found error raised.
C5_AllThreeFailed == GuessRan /\ db_result = NotFound

\* C10: the branch scan returns "main" whenever "main" is listed, "master"
\* only when "master" is listed and "main" is not, and fails when neither is
\* listed, in whatever order the branches are listed.
C10_MainBeforeMaster ==
    (GuessRan /\ db_branches.exc = "none") =>
        /\ <<"main">> \in ListedBranches => db_result = RnOk(<<"main">>)
        /\ (<<"master">> \in ListedBranches /\ <<"main">> \notin ListedBranches) =>
              db_result = RnOk(<<"master">>)
        /\ (<<"master">> \notin ListedBranches /\ <<"main">> \notin ListedBranches) =>
              db_result.kind = "RuntimeError"

UpdatedWithLocalChanges ==
    /\ wc_last.op = "update"
    /\ \/ wc_last.before.added
       \/ \E f \in Files : wc_last.before.tracked[f] # "clean"

Untouched == Snapshot(wc_rev, wc_tracked, wc_added) = wc_last.before

\* C6 as stated: with uncommitted modifications present, update fails on the
\* Mercurial backend and leaves them in place; on the Git backend it succeeds,
\* the working copy is at ref and the modifications are gone.
C6_SafeVersusUnconditional ==
    UpdatedWithLocalChanges =>
        IF wc_backend = "hg"
        THEN ~wc_last.ok /\ Untouched
        ELSE /\ wc_last.ok
             /\ wc_rev = wc_last.ref
             /\ ~wc_added
             /\ \A f \in Files : wc_tracked[f] = "clean"

\* C6 amended: the Mercurial backend as stated. The Git backend fails, leaving
\* the working copy as it was, when a file with a content change or a staged
\* removal differs between the current revision and ref; otherwise it
\* succeeds, the working copy is at ref, and the local changes are carried
\* over (only a missing file that differs between the revisions is restored).
C6_SafeVersusCarryOver ==
    UpdatedWithLocalChanges =>
        IF wc_backend = "hg"
        THEN ~wc_last.ok /\ Untouched
        ELSE LET b == wc_last.before
                 moved == wc_last.ref # b.rev
             IN  IF moved /\ \E f \in Files : /\ ~SameInBoth(f)
                                              /\ b.tracked[f] \in {"modified", "removed"}
                 THEN ~wc_last.ok /\ Untouched
                 ELSE /\ wc_last.ok
                      /\ wc_rev = wc_last.ref
                      /\ wc_added = b.added
                      /\ \A f \in Files :
                           wc_tracked[f] =
                             IF moved /\ ~SameInBoth(f) /\ b.tracked[f] = "deleted"
                             THEN "clean" ELSE b.tracked[f]

\* C6 witness: a Git checkout of the other revision succeeded with a
\* modified file, and the modification is still there.
C6_CheckoutKeepsModification ==
    /\ wc_backend = "git"
    /\ wc_last.op = "update"
    /\ wc_last.ok
    /\ wc_rev # wc_last.before.rev
    /\ wc_last.before.tracked["f"] = "modified"
    /\ wc_tracked["f"] = "modified"

\* C7: working_directory_clean(untracked, ignored) returns true exactly when
\* no tracked file is modified, added, removed or deleted, no untracked file
\* exists if untracked is set, and no ignored file exists if ignored is set.
C7_CleanIffNoEntries ==
    wc_last.op = "clean" =>
        (wc_last.result <=>
            /\ ~wc_added
            /\ \A f \in Files : wc_tracked[f] = "clean"
            /\ wc_last.untracked => ~wc_untracked
            /\ wc_last.ignored => ~wc_ignored)

Marked(d) == loc_fs[d].hg = "dir" \/ loc_fs[d].git # "none"

Ancestors == 1 .. loc_start

Closest == CHOOSE d \in Ancestors : Marked(d) /\ \A e \in Ancestors : Marked(e) => e <= d

ClosestBackend ==
    IF loc_fs[Closest].hg = "dir" THEN [kind |-> "HgRepository", path |-> Closest]
    ELSE [kind |-> "GitRepository", path |-> Closest]

\* C8 as stated: get_repository returns the backend of the closest ancestor
\* that carries a marker, and raises the not-found error exactly when no
\* ancestor carries one.
C8_ClosestMarker ==
    loc_pc = "done" =>
        IF \E d \in Ancestors : Marked(d)
        THEN loc_result = ClosestBackend
        ELSE loc_result.kind = "RuntimeError"

\* C8 amended: the same, provided the tool of that backend is found on the
\* search path; when it is not, constructing the backend raises OSError. In no
\* case is a backend returned for a farther ancestor.
C8_ClosestMarkerIfToolFound ==
    loc_pc = "done" =>
        /\ IF \E d \in Ancestors : Marked(d)
           THEN IF (IF ClosestBackend.kind = "HgRepository" THEN "hg" ELSE "git") \in loc_which
                THEN loc_result = ClosestBackend
                ELSE loc_result.kind = "OSError"
           ELSE loc_result.kind = "RuntimeError"
        /\ loc_result.kind \in {"HgRepository", "GitRepository"} =>
             /\ loc_result.path \in Ancestors
             /\ \A d \in Ancestors : Marked(d) => d <= loc_result.path

\* C8 witness: the start directory carries no marker, its parent carries
\* ".git", the root carries ".hg", and the Git backend of the parent is returned.
C8_NearerGitBeatsFartherHg ==
    /\ loc_pc = "done"
    /\ loc_start = 3
    /\ ~Marked(3)
    /\ loc_fs[2].git = "file" /\ loc_fs[2].hg = "file"
    /\ loc_fs[1].hg = "dir"
    /\ loc_result = [kind |-> "GitRepository", path |-> 2]

Boundaries == {i \in 1 .. Len(br_output) : IsBoundary(br_output[i])}

LastBoundary == CHOOSE i \in Boundaries : \A j \in Boundaries : j <= i

\* C9: base_rev returns the identifier of the last boundary entry without
\* its "-" prefix, the head revision when the output holds no boundary entry,
\* and in every case a complete revision identifier.
C9_LastBoundaryOrHead ==
    br_pc = "done" =>
        /\ br_result \in RevIds
        /\ IF Boundaries # {}
           THEN <<"-">> \o br_result = br_output[LastBoundary]
           ELSE br_result = br_head

====
